---- MODULE Spec2Model ----
(***************************************************************************)
(* Host-import boundary of the contract VM (src/vm/imports.ts).            *)
(*                                                                         *)
(* A guest call is one atomic step: it reads its regions from the guest's  *)
(* linear memory, does its job on the backend, and either returns a number *)
(* or ends in a fault.  The record `last` holds what the latest call was   *)
(* given and how it ended.                                                 *)
(***************************************************************************)
EXTENDS Integers, Sequences, FiniteSets, TLC

VARIABLES
    memory,     \* guest linear memory: address -> byte, for the non-zero bytes
    storage,    \* backend.storage: the key-value store of the instance
    written,    \* history: key -> bytes of its last db_write, while not removed
    sink,       \* the diagnostic sink: the text console.log printed last
    regions,    \* the region descriptors the guest has prepared for its calls
    budget,     \* number of guest calls the behaviour may still make
    last        \* the latest guest call: operation, inputs, outcome

vars == <<memory, storage, written, sink, regions, budget, last>>

---------------------------------------------------------------------------
(* Constants of imports.ts *)

KI == 1024
MI == 1024 * 1024
MAX_LENGTH_DB_KEY == 64 * KI
MAX_LENGTH_DB_VALUE == 128 * KI
MAX_LENGTH_CANONICAL_ADDRESS == 64
MAX_LENGTH_HUMAN_ADDRESS == 256
MAX_LENGTH_QUERY_CHAIN_REQUEST == 64 * KI
MAX_LENGTH_ED25519_SIGNATURE == 64
MAX_LENGTH_ED25519_MESSAGE == 128 * 1024
MAX_COUNT_ED25519_BATCH == 256
MAX_LENGTH_DEBUG == 2 * MI
MAX_LENGTH_ABORT == 2 * MI

EDDSA_PUBKEY_LEN == 32
ECDSA_SIGNATURE_LEN == 64
ECDSA_UNCOMPRESSED_PUBKEY_LEN == 65
ECDSA_PUBKEY_MAX_LEN == ECDSA_UNCOMPRESSED_PUBKEY_LEN
MESSAGE_HASH_MAX_LEN == 32

SECP256K1_VERIFY_CODE_VALID == 0
SECP256K1_VERIFY_CODE_INVALID == 1
ED25519_VERIFY_CODE_VALID == 0
ED25519_VERIFY_CODE_INVALID == 1

---------------------------------------------------------------------------
(* Bounds of the model *)

\* size of the guest's linear memory, in MiB (above every read ceiling)
MemMiB == 4
\* number of guest calls in a behaviour of Spec
MaxCalls == 2
\* number of guest calls in a behaviour of SpecDb
MaxDbCalls == 4
\* longest address text tried in SpecAddr
MaxAddrLen == 3
\* most items per sequence the guest encodes in SpecBatch
MaxBatch == 3

MemSize == MemMiB * MI
\* where the guest keeps the data its calls point at
DataPtr == 2 * 4
\* the address the guest's allocator hands out when it succeeds in bounds
HeapPtr == 4 * 4
\* an address in the part of memory that is still all zero
ZeroPtr == MI

---------------------------------------------------------------------------
(* Outcomes of a call *)

\* a function that returns nothing
NoRet == -1
\* allocate was not called
NoAlloc == -1

NoFault == [kind |-> "none", message |-> <<>>]
Fault(kind, message) == [kind |-> kind, message |-> message]

\* Section 7 of the specification: the class a fault belongs to.
FaultClass(kind) ==
    CASE kind = "none" -> "none"
      [] kind \in {"region", "zeroAddress", "sections"} -> "communication"
      [] kind \in {"aborted", "runtimeErr"} -> "vm"
      [] kind = "crypto" -> "recoverable"
      [] OTHER -> "uncaught"

\* a result of a helper: a value, or the fault it threw
Ok(v) == [ok |-> TRUE, val |-> v, fault |-> NoFault]
Err(f) == [ok |-> FALSE, val |-> <<>>, fault |-> f]

---------------------------------------------------------------------------
(* Memory Region Contract (memory.js) *)

Region(ptr, len) == [ptr |-> ptr, len |-> len]

\* the byte at an address: linear memory is zero-initialised, and `mem`
\* holds the bytes that are not zero
MemByte(mem, a) == IF a \in DOMAIN mem THEN mem[a] ELSE 0

readRegion(mem, region, maxLength) ==
    IF region.len > maxLength
    THEN Err(Fault("region", <<>>))
    ELSE IF region.ptr + region.len > MemSize
    THEN Err(Fault("region", <<>>))
    ELSE Ok([i \in 1..region.len |-> MemByte(mem, region.ptr + i - 1)])

writeRegion(mem, ptr, bytes) ==
    IF ptr + Len(bytes) > MemSize
    THEN Err(Fault("region", <<>>))
    ELSE LET byte(a) ==
                 IF a >= ptr /\ a < ptr + Len(bytes) THEN bytes[a - ptr + 1] ELSE mem[a]
             touched == DOMAIN mem \cup {ptr + i - 1 : i \in 1..Len(bytes)}
         IN  Ok([a \in {x \in touched : byte(x) # 0} |-> byte(a)])

---------------------------------------------------------------------------
(* Backend storage: get / set / remove on byte keys *)

Some(v) == [some |-> TRUE, val |-> v]
Undefined == [some |-> FALSE, val |-> <<>>]

StorageGet(store, key) == IF key \in DOMAIN store THEN Some(store[key]) ELSE Undefined
StorageSet(store, key, value) ==
    [k \in DOMAIN store \cup {key} |-> IF k = key THEN value ELSE store[k]]
StorageRemove(store, key) == [k \in DOMAIN store \ {key} |-> store[k]]

\* a slip: an empty value taken for no value
NotOrEmpty(value) == ~value.some \/ Len(value.val) = 0

\* JavaScript's `!value`: undefined is falsy, a Buffer (even an empty one) is not
Not(value) == ~value.some

---------------------------------------------------------------------------
(* Text: Buffer.toString("utf8") and Buffer.from(text, "utf8") *)

REPLACEMENT_CHARACTER == 65533

\* Decoding as far as this model's bytes go: an ASCII byte is its own
\* character, and a byte from 128 up that starts no well-formed sequence
\* (the inputs hold only such ones, 255) decodes to U+FFFD.
Utf8Decode(bytes) ==
    [i \in 1..Len(bytes) |-> IF bytes[i] < 128 THEN bytes[i] ELSE REPLACEMENT_CHARACTER]

\* "Input is empty"
INPUT_IS_EMPTY == <<73, 110, 112, 117, 116, 32, 105, 115, 32, 101, 109, 112, 116, 121>>
\* "Address is not normalized"
ADDRESS_NOT_NORMALIZED ==
    <<65, 100, 100, 114, 101, 115, 115, 32, 105, 115, 32, 110, 111, 116, 32,
      110, 111, 114, 109, 97, 108, 105, 122, 101, 100>>
\* "Unsupported function"
UNSUPPORTED_FUNCTION ==
    <<85, 110, 115, 117, 112, 112, 111, 114, 116, 101, 100, 32,
      102, 117, 110, 99, 116, 105, 111, 110>>

---------------------------------------------------------------------------
(* base64url, as Buffer.from(text, "base64url") and toString("base64url") *)

\* the 6-bit value of a character of either base64 alphabet; 64: not one
Unbase64(c) ==
    IF c >= 65 /\ c <= 90 THEN c - 65
    ELSE IF c >= 97 /\ c <= 122 THEN c - 71
    ELSE IF c >= 48 /\ c <= 57 THEN c + 4
    ELSE IF c = 43 \/ c = 45 THEN 62
    ELSE IF c = 47 \/ c = 95 THEN 63
    ELSE 64

\* the character of a 6-bit value in the URL-safe alphabet
Base64UrlChar(v) ==
    IF v < 26 THEN v + 65
    ELSE IF v < 52 THEN v + 71
    ELSE IF v < 62 THEN v - 4
    ELSE IF v = 62 THEN 45
    ELSE 95

\* the legal characters of a text up to its first '=', as 6-bit values:
\* the decoder skips what is in neither alphabet and stops at padding
RECURSIVE Sextets(_, _)
Sextets(text, i) ==
    IF i > Len(text) \/ text[i] = 61 THEN <<>>
    ELSE IF Unbase64(text[i]) = 64 THEN Sextets(text, i + 1)
    ELSE <<Unbase64(text[i])>> \o Sextets(text, i + 1)

RECURSIVE DecodeSextets(_)
DecodeSextets(v) ==
    IF Len(v) < 2 THEN <<>>
    ELSE LET b1 == (v[1] * 4 + (v[2] \div 16)) % 256
             b2 == IF Len(v) >= 3 THEN ((v[2] % 16) * 16 + (v[3] \div 4)) % 256 ELSE 0
             b3 == IF Len(v) >= 4 THEN ((v[3] % 4) * 64 + v[4]) % 256 ELSE 0
         IN  IF Len(v) = 2 THEN <<b1>>
             ELSE IF Len(v) = 3 THEN <<b1, b2>>
             ELSE <<b1, b2, b3>> \o DecodeSextets(SubSeq(v, 5, Len(v)))

Base64Decode(text) == DecodeSextets(Sextets(text, 1))

RECURSIVE Base64UrlEncode(_)
Base64UrlEncode(bytes) ==
    IF Len(bytes) = 0 THEN <<>>
    ELSE LET c1 == bytes[1] \div 4
             r1 == (bytes[1] % 4) * 16
         IN  IF Len(bytes) = 1 THEN <<Base64UrlChar(c1), Base64UrlChar(r1)>>
             ELSE LET c2 == r1 + (bytes[2] \div 16)
                      r2 == (bytes[2] % 16) * 4
                  IN  IF Len(bytes) = 2
                      THEN <<Base64UrlChar(c1), Base64UrlChar(c2), Base64UrlChar(r2)>>
                      ELSE <<Base64UrlChar(c1), Base64UrlChar(c2),
                             Base64UrlChar(r2 + (bytes[3] \div 64)),
                             Base64UrlChar(bytes[3] % 64)>>
                           \o Base64UrlEncode(SubSeq(bytes, 4, Len(bytes)))

---------------------------------------------------------------------------
(* Sections wire format (sections.js): each item after its 4-byte length *)

\* a 4-byte big-endian length
U32(buf, at) == ((buf[at] * 256 + buf[at + 1]) * 256 + buf[at + 2]) * 256 + buf[at + 3]
EncodeU32(n) == <<(n \div 16777216) % 256, (n \div 65536) % 256, (n \div 256) % 256, n % 256>>

\* where the section after the one at p starts: Len(buf) + 1 stands for the
\* end of the buffer, and Len(buf) + 2 for a section that does not fit in it
NextStart(buf, p) ==
    IF p > Len(buf) THEN p
    ELSE IF p + 3 > Len(buf) THEN Len(buf) + 2
    ELSE IF p + 3 + U32(buf, p) > Len(buf) THEN Len(buf) + 2
    ELSE p + 4 + U32(buf, p)

\* The walk from section to section, computed by doubling so that a buffer
\* of some hundred sections is decoded in a few steps: tables[k] hops over
\* 2^(k-1) sections, reach holds the starts found so far.
RECURSIVE Walk(_, _)
Walk(tables, reach) ==
    LET hop == tables[Len(tables)]
        further == reach \cup {hop[p] : p \in reach}
    IN  IF further = reach THEN [tables |-> tables, reach |-> reach]
        ELSE Walk(Append(tables, <<>> \o [p \in 1..Len(hop) |-> hop[hop[p]]]), further)

\* the start reached from p after n sections
RECURSIVE HopN(_, _, _, _)
HopN(tables, p, n, k) ==
    IF n = 0 THEN p
    ELSE HopN(tables, IF n % 2 = 1 THEN tables[k][p] ELSE p, n \div 2, k + 1)

decodeSections(buf) ==
    LET bytes == <<>> \o buf
        walk == Walk(<<(<<>> \o [p \in 1..(Len(bytes) + 2) |-> NextStart(bytes, p)])>>, {1})
        count == Cardinality(walk.reach \ {Len(bytes) + 1, Len(bytes) + 2})
    IN  IF Len(bytes) + 2 \in walk.reach THEN Err(Fault("sections", <<>>))
        ELSE Ok([i \in 1..count |->
                    LET at == HopN(walk.tables, 1, i - 1, 1)
                    IN  SubSeq(bytes, at + 4, at + 3 + U32(bytes, at))])

RECURSIVE EncodeSections(_)
EncodeSections(items) ==
    IF Len(items) = 0 THEN <<>>
    ELSE EncodeU32(Len(items[1])) \o items[1] \o EncodeSections(Tail(items))

---------------------------------------------------------------------------
(* The signature libraries, as far as the boundary sees them *)

Fill(n, b) == [i \in 1..n |-> b]

\* the sum of bytes[lo..hi], halving the range
RECURSIVE SumRange(_, _, _)
SumRange(bytes, lo, hi) ==
    IF lo > hi THEN 0
    ELSE IF lo = hi THEN bytes[lo]
    ELSE LET mid == (lo + hi) \div 2
         IN  SumRange(bytes, lo, mid) + SumRange(bytes, mid + 1, hi)

Sum(bytes) == SumRange(bytes, 1, Len(bytes))

\* a stand-in signature scheme with ed25519's lengths: the signature of a
\* message under a key is the key followed by a digest of the message
Digest(message) == Fill(EDDSA_PUBKEY_LEN, (Sum(message) + 1) % 256)
Sign(message, key) == key \o Digest(message)

\* ed.verify: a pure verdict on (signature, message, public key)
Ed25519Verify(signature, message, pubkey) ==
    /\ Len(pubkey) = EDDSA_PUBKEY_LEN
    /\ Len(signature) = MAX_LENGTH_ED25519_SIGNATURE
    /\ signature = Sign(message, pubkey)

\* what the secp256k1 library can answer to a recovery: the uncompressed
\* public key, or an exception (invalid recovery id, or no valid point)
RecoveredKey == <<4>> \o Fill(ECDSA_UNCOMPRESSED_PUBKEY_LEN - 1, 7)
RecoverOutcomes == {"throws", "key"}

---------------------------------------------------------------------------
(* The state a handler works on, and how it ends *)

Enter ==
    [memory |-> memory, storage |-> storage, sink |-> sink,
     returned |-> FALSE, ret |-> NoRet, fault |-> NoFault, alloc |-> NoAlloc,
     lib |-> "none", verified |-> 0, decoded |-> <<>>]

Returned(s, value) == [s EXCEPT !.returned = TRUE, !.ret = value]
Thrown(s, fault) == [s EXCEPT !.returned = FALSE, !.fault = fault]

\* a slip: the answer of allocate used unchecked
writeToContractUnchecked(s, input, targetPtr) ==
    LET s1 == [s EXCEPT !.alloc = targetPtr]
        w == writeRegion(s1.memory, targetPtr, input)
    IN  IF ~w.ok THEN Thrown(s1, w.fault)
        ELSE Returned([s1 EXCEPT !.memory = w.val], targetPtr)

\* targetPtr: what the guest's allocate export answered for input.length
writeToContract(s, input, targetPtr) ==
    LET s1 == [s EXCEPT !.alloc = targetPtr]
    IN  IF targetPtr = 0
        THEN Thrown(s1, Fault("zeroAddress", <<>>))
        ELSE LET w == writeRegion(s1.memory, targetPtr, input)
             IN  IF ~w.ok THEN Thrown(s1, w.fault)
                 ELSE Returned([s1 EXCEPT !.memory = w.val], targetPtr)

---------------------------------------------------------------------------
(* Storage Bridge.  A pointer argument is given as the region it designates *)

doDbRead(s, keyPtr, targetPtr) ==
    LET key == readRegion(s.memory, keyPtr, MAX_LENGTH_DB_KEY)
    IN  IF ~key.ok THEN Thrown(s, key.fault)
        ELSE LET value == StorageGet(s.storage, key.val)
             IN  IF Not(value) THEN Returned(s, 0)
                 ELSE writeToContract(s, value.val, targetPtr)

\* a slip: the key entered in the store before the value is read
doDbWriteKeyFirst(s, keyPtr, valuePtr) ==
    LET key == readRegion(s.memory, keyPtr, MAX_LENGTH_DB_KEY)
    IN  IF ~key.ok THEN Thrown(s, key.fault)
        ELSE LET s1 == [s EXCEPT !.storage = StorageSet(@, key.val, <<>>)]
                 value == readRegion(s.memory, valuePtr, MAX_LENGTH_DB_VALUE)
             IN  IF ~value.ok THEN Thrown(s1, value.fault)
                 ELSE Returned([s1 EXCEPT !.storage = StorageSet(@, key.val, value.val)],
                               NoRet)

doDbWrite(s, keyPtr, valuePtr) ==
    LET key == readRegion(s.memory, keyPtr, MAX_LENGTH_DB_KEY)
    IN  IF ~key.ok THEN Thrown(s, key.fault)
        ELSE LET value == readRegion(s.memory, valuePtr, MAX_LENGTH_DB_VALUE)
             IN  IF ~value.ok THEN Thrown(s, value.fault)
                 ELSE Returned([s EXCEPT !.storage = StorageSet(@, key.val, value.val)],
                               NoRet)

doDbRemove(s, keyPtr) ==
    LET key == readRegion(s.memory, keyPtr, MAX_LENGTH_DB_KEY)
    IN  IF ~key.ok THEN Thrown(s, key.fault)
        ELSE Returned([s EXCEPT !.storage = StorageRemove(@, key.val)], NoRet)

doDbScan(s) == Thrown(s, Fault("runtimeErr", UNSUPPORTED_FUNCTION))

doDbNext(s) == Thrown(s, Fault("runtimeErr", UNSUPPORTED_FUNCTION))

---------------------------------------------------------------------------
(* Address Subsystem *)

\* a slip: the canonical bytes compared, not the texts
doAddrValidateCanonical(s, sourcePtr, targetPtr) ==
    LET sourceData == readRegion(s.memory, sourcePtr, MAX_LENGTH_HUMAN_ADDRESS)
    IN  IF ~sourceData.ok THEN Thrown(s, sourceData.fault)
        ELSE IF Len(sourceData.val) = 0
        THEN writeToContract(s, INPUT_IS_EMPTY, targetPtr)
        ELSE LET sourceString == Utf8Decode(sourceData.val)
                 canonical == Base64Decode(sourceString)
                 nomalized == Base64UrlEncode(canonical)
             IN  IF Base64Decode(nomalized) # canonical
                 THEN writeToContract(s, ADDRESS_NOT_NORMALIZED, targetPtr)
                 ELSE Returned(s, 0)

doAddrValidate(s, sourcePtr, targetPtr) ==
    LET sourceData == readRegion(s.memory, sourcePtr, MAX_LENGTH_HUMAN_ADDRESS)
    IN  IF ~sourceData.ok THEN Thrown(s, sourceData.fault)
        ELSE IF Len(sourceData.val) = 0
        THEN writeToContract(s, INPUT_IS_EMPTY, targetPtr)
        ELSE LET sourceString == Utf8Decode(sourceData.val)
                 canonical == Base64Decode(sourceString)
                 nomalized == Base64UrlEncode(canonical)
             IN  IF nomalized # sourceString
                 THEN writeToContract(s, ADDRESS_NOT_NORMALIZED, targetPtr)
                 ELSE Returned(s, 0)

\* codec: whether backend.api.canonicalAddress answers or throws
doAddrCanonicalize(s, sourcePtr, destinationPtr, targetPtr, codec) ==
    LET sourceData == readRegion(s.memory, sourcePtr, MAX_LENGTH_HUMAN_ADDRESS)
    IN  IF ~sourceData.ok THEN Thrown(s, sourceData.fault)
        ELSE IF Len(sourceData.val) = 0
        THEN writeToContract(s, INPUT_IS_EMPTY, targetPtr)
        ELSE LET s1 == [s EXCEPT !.lib = codec]
             IN  IF codec = "throws" THEN Thrown(s1, Fault("backend", <<>>))
                 ELSE LET canonical == Base64Decode(Utf8Decode(sourceData.val))
                          w == writeRegion(s1.memory, destinationPtr, canonical)
                      IN  IF ~w.ok THEN Thrown(s1, w.fault)
                          ELSE Returned([s1 EXCEPT !.memory = w.val], 0)

doAddrHumanize(s, sourcePtr, destinationPtr, codec) ==
    LET canonical == readRegion(s.memory, sourcePtr, MAX_LENGTH_CANONICAL_ADDRESS)
    IN  IF ~canonical.ok THEN Thrown(s, canonical.fault)
        ELSE LET s1 == [s EXCEPT !.lib = codec]
             IN  IF codec = "throws" THEN Thrown(s1, Fault("backend", <<>>))
                 ELSE LET human == Base64UrlEncode(canonical.val)
                          w == writeRegion(s1.memory, destinationPtr, human)
                      IN  IF ~w.ok THEN Thrown(s1, w.fault)
                          ELSE Returned([s1 EXCEPT !.memory = w.val], 0)

---------------------------------------------------------------------------
(* Crypto Verification Suite *)

\* verdict: what secp.verify answers for the three buffers
doSecp256k1Verify(s, hashPtr, signaturePtr, pubkeyPtr, verdict) ==
    LET hash == readRegion(s.memory, hashPtr, MESSAGE_HASH_MAX_LEN)
    IN  IF ~hash.ok THEN Thrown(s, hash.fault)
        ELSE LET signature == readRegion(s.memory, signaturePtr, ECDSA_SIGNATURE_LEN)
             IN  IF ~signature.ok THEN Thrown(s, signature.fault)
                 ELSE LET pubkey == readRegion(s.memory, pubkeyPtr, ECDSA_PUBKEY_MAX_LEN)
                      IN  IF ~pubkey.ok THEN Thrown(s, pubkey.fault)
                          ELSE Returned(s, IF verdict THEN SECP256K1_VERIFY_CODE_VALID
                                           ELSE SECP256K1_VERIFY_CODE_INVALID)

\* recovery: what the library does with (r, s, recoverParam) and the hash
doSecp256k1RecoverPubkey(s, hashPtr, signaturePtr, recoverParam, targetPtr, recovery) ==
    LET hash == readRegion(s.memory, hashPtr, MESSAGE_HASH_MAX_LEN)
    IN  IF ~hash.ok THEN Thrown(s, hash.fault)
        ELSE LET sig == readRegion(s.memory, signaturePtr, ECDSA_SIGNATURE_LEN)
             IN  IF ~sig.ok THEN Thrown(s, sig.fault)
                 \* BigInt("0x") of an empty half is a SyntaxError
                 ELSE IF Len(sig.val) <= 32
                 THEN Thrown([s EXCEPT !.lib = "throws"], Fault("syntax", <<>>))
                 ELSE IF recovery = "throws" \/ recoverParam \notin 0..3
                 THEN Thrown([s EXCEPT !.lib = "throws"], Fault("library", <<>>))
                 ELSE writeToContract([s EXCEPT !.lib = recovery], RecoveredKey, targetPtr)

doEd25519Verify(s, messagePtr, signaturePtr, pubkeyPtr) ==
    LET message == readRegion(s.memory, messagePtr, MAX_LENGTH_ED25519_MESSAGE)
    IN  IF ~message.ok THEN Thrown(s, message.fault)
        ELSE LET signature ==
                     readRegion(s.memory, signaturePtr, MAX_LENGTH_ED25519_SIGNATURE)
             IN  IF ~signature.ok THEN Thrown(s, signature.fault)
                 ELSE LET pubkey == readRegion(s.memory, pubkeyPtr, EDDSA_PUBKEY_LEN)
                      IN  IF ~pubkey.ok THEN Thrown(s, pubkey.fault)
                          ELSE Returned(s,
                                   IF Ed25519Verify(signature.val, message.val, pubkey.val)
                                   THEN ED25519_VERIFY_CODE_VALID
                                   ELSE ED25519_VERIFY_CODE_INVALID)

\* a slip: the loop goes on after a failing triple, and the last one decides
RECURSIVE VerifyLoopLastDecides(_, _, _, _)
VerifyLoopLastDecides(signatures, messages, publicKeys, i) ==
    IF i > Len(messages)
    THEN [ret |-> ED25519_VERIFY_CODE_VALID, verified |-> i - 1]
    ELSE IF i = Len(messages)
            /\ ~Ed25519Verify(signatures[i], messages[i], publicKeys[i])
    THEN [ret |-> ED25519_VERIFY_CODE_INVALID, verified |-> i]
    ELSE VerifyLoopLastDecides(signatures, messages, publicKeys, i + 1)

\* the loop of doEd25519BatchVerify from index i on: the verdict, and how
\* many times ed.verify was called
RECURSIVE VerifyLoop(_, _, _, _)
VerifyLoop(signatures, messages, publicKeys, i) ==
    IF i > Len(messages)
    THEN [ret |-> ED25519_VERIFY_CODE_VALID, verified |-> i - 1]
    ELSE IF ~Ed25519Verify(signatures[i], messages[i], publicKeys[i])
    THEN [ret |-> ED25519_VERIFY_CODE_INVALID, verified |-> i]
    ELSE VerifyLoop(signatures, messages, publicKeys, i + 1)

\* the three decoded arrays: length dispatch, broadcast and the loop
BatchVerdict(s, messages0, signatures, publicKeys0) ==
    LET messagesLen == Len(messages0)
        signaturesLen == Len(signatures)
        publicKeysLen == Len(publicKeys0)
        shape ==
            IF messagesLen = signaturesLen /\ signaturesLen = publicKeysLen THEN "same"
            ELSE IF messagesLen = 1 /\ signaturesLen = publicKeysLen THEN "message"
            ELSE IF publicKeysLen = 1 /\ messagesLen = signaturesLen THEN "key"
            ELSE "none"
        messages ==
            IF shape = "message" THEN [i \in 1..signaturesLen |-> messages0[1]]
            ELSE messages0
        publicKeys ==
            IF shape = "key" THEN [i \in 1..signaturesLen |-> publicKeys0[1]]
            ELSE publicKeys0
    IN  IF shape = "none" THEN Returned(s, ED25519_VERIFY_CODE_INVALID)
        ELSE IF Len(messages) # signaturesLen \/ Len(messages) # Len(publicKeys)
        THEN Returned(s, ED25519_VERIFY_CODE_INVALID)
        ELSE LET loop == VerifyLoop(signatures, messages, publicKeys, 1)
             IN  Returned([s EXCEPT !.verified = loop.verified], loop.ret)

doEd25519BatchVerify(s, messagesPtr, signaturesPtr, publicKeysPtr) ==
    LET messagesBuf ==
            readRegion(s.memory, messagesPtr,
                       (MAX_LENGTH_ED25519_MESSAGE + 4) * MAX_COUNT_ED25519_BATCH)
        signaturesBuf ==
            readRegion(s.memory, signaturesPtr,
                       (MAX_LENGTH_ED25519_SIGNATURE + 4) * MAX_COUNT_ED25519_BATCH)
        publicKeysBuf ==
            readRegion(s.memory, publicKeysPtr,
                       (EDDSA_PUBKEY_LEN + 4) * MAX_COUNT_ED25519_BATCH)
    IN  IF ~messagesBuf.ok THEN Thrown(s, messagesBuf.fault)
        ELSE IF ~signaturesBuf.ok THEN Thrown(s, signaturesBuf.fault)
        ELSE IF ~publicKeysBuf.ok THEN Thrown(s, publicKeysBuf.fault)
        ELSE LET messages == decodeSections(messagesBuf.val)
                 signatures == decodeSections(signaturesBuf.val)
                 publicKeys == decodeSections(publicKeysBuf.val)
             IN  IF ~messages.ok THEN Thrown(s, messages.fault)
                 ELSE IF ~signatures.ok THEN Thrown(s, signatures.fault)
                 ELSE IF ~publicKeys.ok THEN Thrown(s, publicKeys.fault)
                 ELSE BatchVerdict(
                          [s EXCEPT !.decoded =
                                        <<messages.val, signatures.val, publicKeys.val>>],
                          messages.val, signatures.val, publicKeys.val)

---------------------------------------------------------------------------
(* Diagnostics & Query Channel *)

doDebug(s, messagePtr) ==
    LET messageData == readRegion(s.memory, messagePtr, MAX_LENGTH_DEBUG)
    IN  IF ~messageData.ok THEN Thrown(s, messageData.fault)
        ELSE LET msg == Utf8Decode(messageData.val)
             IN  Returned([s EXCEPT !.sink = msg], NoRet)

\* a slip: the fault raised without the message
doAbortNoMessage(s, messagePtr) ==
    LET messageData == readRegion(s.memory, messagePtr, MAX_LENGTH_ABORT)
    IN  IF ~messageData.ok THEN Thrown(s, messageData.fault)
        ELSE Thrown(s, Fault("aborted", <<>>))

doAbort(s, messagePtr) ==
    LET messageData == readRegion(s.memory, messagePtr, MAX_LENGTH_ABORT)
    IN  IF ~messageData.ok THEN Thrown(s, messageData.fault)
        ELSE LET msg == Utf8Decode(messageData.val)
             IN  Thrown(s, Fault("aborted", msg))

\* result: the bytes backend.querier.queryRaw answers
doQueryChain(s, requestPtr, targetPtr, result) ==
    LET request == readRegion(s.memory, requestPtr, MAX_LENGTH_QUERY_CHAIN_REQUEST)
    IN  IF ~request.ok THEN Thrown(s, request.fault)
        ELSE writeToContract(s, result, targetPtr)

---------------------------------------------------------------------------
(* What the guest can pass *)

\* a region reaching past the end of memory
OobRegion == Region(MemSize - 1, 2)
\* a region inside memory, one byte longer than a call site's ceiling
Over(maxLength) == Region(DataPtr, maxLength + 1)
\* the regions tried at a call site with the given ceiling
In(maxLength) == regions \cup {OobRegion, Over(maxLength)}
\* what the guest's allocate export may answer: zero, an address with room,
\* and the end of memory, where only an empty buffer fits
AllocPtrs == {0, HeapPtr, MemSize}
\* destination pointers of addr_canonicalize and addr_humanize
DestPtrs == {HeapPtr, MemSize}
\* zero bytes in memory: a full-length signature buffer, a full-length hash
SignatureRegion == Region(ZeroPtr, ECDSA_SIGNATURE_LEN)
HashRegion == Region(ZeroPtr, MESSAGE_HASH_MAX_LEN)

\* 4 * (MAX_COUNT_ED25519_BATCH + 1) zero bytes: 257 empty sections
ManyEmptySections == Region(ZeroPtr, 4 * (MAX_COUNT_ED25519_BATCH + 1))

\* the bytes of a region, for stating properties
RegionBytes(mem, region) == [i \in 1..region.len |-> MemByte(mem, region.ptr + i - 1)]

NoCall ==
    [op |-> "none", args |-> <<>>, returned |-> FALSE, ret |-> NoRet, fault |-> NoFault,
     alloc |-> NoAlloc, lib |-> "none", verified |-> 0, decoded |-> <<>>]

\* one guest call: the handler's effect e becomes the state
Step(op, args, e) ==
    /\ budget > 0
    /\ budget' = budget - 1
    /\ memory' = e.memory
    /\ storage' = e.storage
    /\ sink' = e.sink
    /\ last' = [op |-> op, args |-> args, returned |-> e.returned, ret |-> e.ret,
                fault |-> e.fault, alloc |-> e.alloc, lib |-> e.lib,
                verified |-> e.verified, decoded |-> e.decoded]
    /\ UNCHANGED regions

DbRead ==
    \E keyPtr \in In(MAX_LENGTH_DB_KEY), targetPtr \in AllocPtrs :
        /\ Step("db_read", <<keyPtr>>, doDbRead(Enter, keyPtr, targetPtr))
        /\ UNCHANGED written

DbWrite ==
    \E keyPtr \in In(MAX_LENGTH_DB_KEY), valuePtr \in In(MAX_LENGTH_DB_VALUE) :
        LET e == doDbWrite(Enter, keyPtr, valuePtr)
        IN  /\ Step("db_write", <<keyPtr, valuePtr>>, e)
            /\ written' =
                   IF e.returned
                   THEN LET key == RegionBytes(memory, keyPtr)
                        IN  [k \in DOMAIN written \cup {key} |->
                                IF k = key THEN RegionBytes(memory, valuePtr)
                                ELSE written[k]]
                   ELSE written

DbRemove ==
    \E keyPtr \in In(MAX_LENGTH_DB_KEY) :
        LET e == doDbRemove(Enter, keyPtr)
        IN  /\ Step("db_remove", <<keyPtr>>, e)
            /\ written' =
                   IF e.returned
                   THEN [k \in DOMAIN written \ {RegionBytes(memory, keyPtr)} |-> written[k]]
                   ELSE written

DbScan ==
    /\ Step("db_scan", <<>>, doDbScan(Enter))
    /\ UNCHANGED written

DbNext ==
    /\ Step("db_next", <<>>, doDbNext(Enter))
    /\ UNCHANGED written

AddrValidate ==
    \E sourcePtr \in In(MAX_LENGTH_HUMAN_ADDRESS), targetPtr \in AllocPtrs :
        /\ Step("addr_validate", <<sourcePtr>>, doAddrValidate(Enter, sourcePtr, targetPtr))
        /\ UNCHANGED written

AddrCanonicalize ==
    \E sourcePtr \in In(MAX_LENGTH_HUMAN_ADDRESS), destinationPtr \in DestPtrs,
       targetPtr \in AllocPtrs, codec \in {"throws", "answers"} :
        /\ Step("addr_canonicalize", <<sourcePtr, destinationPtr>>,
                doAddrCanonicalize(Enter, sourcePtr, destinationPtr, targetPtr, codec))
        /\ UNCHANGED written

AddrHumanize ==
    \E sourcePtr \in In(MAX_LENGTH_CANONICAL_ADDRESS), destinationPtr \in DestPtrs,
       codec \in {"throws", "answers"} :
        /\ Step("addr_humanize", <<sourcePtr, destinationPtr>>,
                doAddrHumanize(Enter, sourcePtr, destinationPtr, codec))
        /\ UNCHANGED written

Secp256k1Verify ==
    \E hashPtr \in {HashRegion, Over(MESSAGE_HASH_MAX_LEN)},
       signaturePtr \in {SignatureRegion, Over(ECDSA_SIGNATURE_LEN)},
       pubkeyPtr \in {SignatureRegion, OobRegion}, verdict \in BOOLEAN :
        /\ Step("secp256k1_verify", <<hashPtr, signaturePtr, pubkeyPtr>>,
                doSecp256k1Verify(Enter, hashPtr, signaturePtr, pubkeyPtr, verdict))
        /\ UNCHANGED written

Secp256k1RecoverPubkey ==
    \E hashPtr \in {HashRegion, OobRegion},
       signaturePtr \in {SignatureRegion, Region(DataPtr, 1), Over(ECDSA_SIGNATURE_LEN)},
       recoverParam \in {0, 4}, targetPtr \in AllocPtrs, recovery \in RecoverOutcomes :
        /\ Step("secp256k1_recover_pubkey", <<hashPtr, signaturePtr, recoverParam>>,
                doSecp256k1RecoverPubkey(Enter, hashPtr, signaturePtr, recoverParam,
                                         targetPtr, recovery))
        /\ UNCHANGED written

\* the payload of the first section of a section-encoded region
FirstItem(mem, region) == Region(region.ptr + 4, U32(RegionBytes(mem, Region(region.ptr, 4)), 1))
ItemRegions == {FirstItem(memory, r) : r \in {x \in regions : x.len >= 4}}

Ed25519VerifyCall ==
    \E messagePtr \in {Over(MAX_LENGTH_ED25519_MESSAGE)} \cup ItemRegions,
       signaturePtr \in {Over(MAX_LENGTH_ED25519_SIGNATURE)} \cup ItemRegions,
       pubkeyPtr \in {OobRegion} \cup ItemRegions :
        /\ Step("ed25519_verify", <<messagePtr, signaturePtr, pubkeyPtr>>,
                doEd25519Verify(Enter, messagePtr, signaturePtr, pubkeyPtr))
        /\ UNCHANGED written

Ed25519BatchVerify ==
    \E messagesPtr \in regions \cup {OobRegion},
       signaturesPtr \in regions \cup {ManyEmptySections},
       publicKeysPtr \in regions
                 \cup {Over((EDDSA_PUBKEY_LEN + 4) * MAX_COUNT_ED25519_BATCH)} :
        /\ Step("ed25519_batch_verify", <<messagesPtr, signaturesPtr, publicKeysPtr>>,
                doEd25519BatchVerify(Enter, messagesPtr, signaturesPtr, publicKeysPtr))
        /\ UNCHANGED written

Debug ==
    \E messagePtr \in In(MAX_LENGTH_DEBUG) :
        /\ Step("debug", <<messagePtr>>, doDebug(Enter, messagePtr))
        /\ UNCHANGED written

Abort ==
    \E messagePtr \in In(MAX_LENGTH_ABORT) :
        /\ Step("abort", <<messagePtr>>, doAbort(Enter, messagePtr))
        /\ UNCHANGED written

QueryChain ==
    \E requestPtr \in In(MAX_LENGTH_QUERY_CHAIN_REQUEST), targetPtr \in AllocPtrs,
       result \in {<<>>, <<1, 2>>} :
        /\ Step("query_chain", <<requestPtr>>,
                doQueryChain(Enter, requestPtr, targetPtr, result))
        /\ UNCHANGED written

---------------------------------------------------------------------------
(* Spec: one instance, a guest making any calls on it *)

\* the bytes the guest holds at DataPtr: "A" and a byte that is no UTF-8
GuestData == <<65, 255>>

\* memory holding `data` at DataPtr and zero elsewhere
Image(data) ==
    [a \in {DataPtr + i - 1 : i \in {j \in 1..Len(data) : data[j] # 0}} |->
        data[a - DataPtr + 1]]

EmptyStore == [k \in {} |-> <<>>]

Init ==
    /\ memory = Image(GuestData)
    /\ regions = {Region(DataPtr, n) : n \in 0..Len(GuestData)}
    /\ storage = EmptyStore
    /\ written = EmptyStore
    /\ sink = <<>>
    /\ budget = MaxCalls
    /\ last = NoCall

Next ==
    \/ DbRead
    \/ DbWrite
    \/ DbRemove
    \/ DbScan
    \/ DbNext
    \/ AddrValidate
    \/ AddrCanonicalize
    \/ AddrHumanize
    \/ Secp256k1Verify
    \/ Secp256k1RecoverPubkey
    \/ Ed25519VerifyCall
    \/ Ed25519BatchVerify
    \/ Debug
    \/ Abort
    \/ QueryChain

Spec == Init /\ [][Next]_vars

---------------------------------------------------------------------------
(* SpecDb: longer runs of the storage bridge alone *)

InitDb ==
    /\ memory = Image(GuestData)
    /\ regions = {Region(DataPtr, n) : n \in 0..Len(GuestData)}
    /\ storage = EmptyStore
    /\ written = EmptyStore
    /\ sink = <<>>
    /\ budget = MaxDbCalls
    /\ last = NoCall

NextDb ==
    \/ DbRead
    \/ DbWrite
    \/ DbRemove

SpecDb == InitDb /\ [][NextDb]_vars

---------------------------------------------------------------------------
(* SpecAddr: the address functions on every short text *)

\* 'A' (0), 'Q' (16), '8' (60), '-' and '+' (62), '=' (padding), '!' (in
\* neither alphabet), and a byte that is no UTF-8
AddrBytes == {65, 81, 56, 45, 43, 61, 33, 255}

Texts == UNION {[1..n -> AddrBytes] : n \in 0..MaxAddrLen}

InitAddr ==
    \E text \in Texts :
        /\ memory = Image(text)
        /\ regions = {Region(DataPtr, Len(text))}
        /\ storage = EmptyStore
        /\ written = EmptyStore
        /\ sink = <<>>
        /\ budget = 1
        /\ last = NoCall

NextAddr ==
    \/ AddrValidate
    \/ AddrCanonicalize
    \/ AddrHumanize

SpecAddr == InitAddr /\ [][NextAddr]_vars

---------------------------------------------------------------------------
(* SpecBatch: ed25519 verification on batches the guest encodes *)

\* the i-th message and the i-th public key of the guest
Message(i) == <<i>>
PublicKey(i) == Fill(EDDSA_PUBKEY_LEN, 100 + i)
\* the item of an n-item sequence that index i of a batch is paired with
Paired(i, n) == IF i <= n THEN i ELSE n
\* a signature that fails: the right one with its last byte changed
Corrupt(signature) ==
    [i \in 1..Len(signature) |->
        IF i = Len(signature) THEN (signature[i] + 1) % 256 ELSE signature[i]]

BatchMessages(nM) == [i \in 1..nM |-> Message(i)]
BatchPublicKeys(nK) == [i \in 1..nK |-> PublicKey(i)]
BatchSignatures(nM, nS, nK, bad) ==
    [i \in 1..nS |->
        LET message == IF nM = 0 THEN <<>> ELSE Message(Paired(i, nM))
            key == IF nK = 0 THEN PublicKey(0) ELSE PublicKey(Paired(i, nK))
        IN  IF i \in bad THEN Corrupt(Sign(message, key)) ELSE Sign(message, key)]

InitBatch ==
    \E nM \in 0..MaxBatch, nS \in 0..MaxBatch, nK \in 0..MaxBatch :
        \E bad \in SUBSET (1..nS) :
            LET m == EncodeSections(BatchMessages(nM))
                s == EncodeSections(BatchSignatures(nM, nS, nK, bad))
                k == EncodeSections(BatchPublicKeys(nK))
            IN  /\ memory = Image(m \o s \o k)
                /\ regions = {Region(DataPtr, Len(m)),
                              Region(DataPtr + Len(m), Len(s)),
                              Region(DataPtr + Len(m) + Len(s), Len(k))}
                /\ storage = EmptyStore
                /\ written = EmptyStore
                /\ sink = <<>>
                /\ budget = 1
                /\ last = NoCall

NextBatch ==
    \/ Ed25519BatchVerify
    \/ Ed25519VerifyCall

SpecBatch == InitBatch /\ [][NextBatch]_vars

---------------------------------------------------------------------------
(* Properties *)

\* whether a region can be read at a call site with the given ceiling
Readable(region, maxLength) ==
    region.len <= maxLength /\ region.ptr + region.len <= MemSize

\* a call that hands `bytes` back through writeToContract: it returns the
\* allocated pointer with the bytes behind it, unless the allocator answered
\* zero or an address where they do not fit
HandsBack(bytes) ==
    \/ /\ last.returned
       /\ last.ret # 0
       /\ last.ret = last.alloc
       /\ RegionBytes(memory, Region(last.ret, Len(bytes))) = bytes
    \/ /\ ~last.returned
       /\ FaultClass(last.fault.kind) = "communication"
       /\ last.alloc = 0 \/ last.alloc + Len(bytes) > MemSize

\* C1: the store equals the history of writes and removes (removing an
\* absent key changes nothing), and a db_read whose key can be read returns
\* 0 exactly when the key has no entry; for a key with an entry it hands
\* back the bytes of the last db_write to it, also when they are empty.
C1_ReadReturnsLastWrite ==
    /\ storage = written
    /\ (last.op = "db_read" /\ Readable(last.args[1], MAX_LENGTH_DB_KEY)) =>
           LET key == RegionBytes(memory, last.args[1])
           IN  IF key \in DOMAIN written
               THEN HandsBack(written[key])
               ELSE last.returned /\ last.ret = 0 /\ last.alloc = NoAlloc

\* a db_read that returned a pointer to an empty value
C1_Witness ==
    /\ last.op = "db_read"
    /\ last.returned
    /\ last.ret # 0
    /\ written[RegionBytes(memory, last.args[1])] = <<>>

\* the reference of C2: the triples of a batch, index by index or with the
\* single message or the single key paired with every index
RefShape(M, S, K) ==
    \/ Len(M) = Len(S) /\ Len(S) = Len(K)
    \/ Len(M) = 1 /\ Len(S) = Len(K)
    \/ Len(K) = 1 /\ Len(M) = Len(S)
RefTriple(M, S, K, i) ==
    IF Len(M) = Len(S) /\ Len(S) = Len(K) THEN <<S[i], M[i], K[i]>>
    ELSE IF Len(M) = 1 THEN <<S[i], M[1], K[i]>>
    ELSE <<S[i], M[i], K[1]>>
RefFailing(M, S, K) ==
    {i \in 1..Len(S) :
        ~Ed25519Verify(RefTriple(M, S, K, i)[1], RefTriple(M, S, K, i)[2],
                       RefTriple(M, S, K, i)[3])}

\* C2: ed25519_batch_verify on decoded sequences M, S, K answers as the
\* reference does: INVALID with no verification for a length combination
\* that is none of the three shapes; else VALID, every triple verified, when
\* none fails, and INVALID with nothing verified after the first failing one.
C2_BatchVerdictIsReference ==
    (last.op = "ed25519_batch_verify" /\ last.decoded # <<>>) =>
        LET M == last.decoded[1]
            S == last.decoded[2]
            K == last.decoded[3]
        IN  /\ last.returned
            /\ IF ~RefShape(M, S, K)
               THEN last.ret = ED25519_VERIFY_CODE_INVALID /\ last.verified = 0
               ELSE IF RefFailing(M, S, K) = {}
               THEN last.ret = ED25519_VERIFY_CODE_VALID /\ last.verified = Len(S)
               ELSE /\ last.ret = ED25519_VERIFY_CODE_INVALID
                    /\ last.verified \in RefFailing(M, S, K)
                    /\ \A i \in RefFailing(M, S, K) : last.verified <= i

\* one message for several signers, and a failing triple before the last
C2_Witness ==
    /\ last.op = "ed25519_batch_verify"
    /\ last.decoded # <<>>
    /\ Len(last.decoded[1]) = 1
    /\ Len(last.decoded[2]) > 1
    /\ last.ret = ED25519_VERIFY_CODE_INVALID
    /\ last.verified > 0
    /\ last.verified < Len(last.decoded[2])

\* C3: addr_validate on a readable source: the text "Input is empty" is
\* handed back for an empty input, "Address is not normalized" for a
\* non-empty input that its canonical round trip does not give back byte
\* for byte, and 0 is returned, nothing allocated, for one it does.
C3_ValidateOutcomes ==
    (last.op = "addr_validate" /\ Readable(last.args[1], MAX_LENGTH_HUMAN_ADDRESS)) =>
        LET source == RegionBytes(memory, last.args[1])
        IN  IF Len(source) = 0 THEN HandsBack(INPUT_IS_EMPTY)
            ELSE IF Base64UrlEncode(Base64Decode(source)) # source
            THEN HandsBack(ADDRESS_NOT_NORMALIZED)
            ELSE last.returned /\ last.ret = 0 /\ last.alloc = NoAlloc

\* a normalized address of more than two characters was accepted
C3_Witness ==
    /\ last.op = "addr_validate"
    /\ last.returned
    /\ last.ret = 0
    /\ last.args[1].len > 2

\* C4: when the codec fails on a non-empty input, addr_canonicalize returns
\* a non-zero pointer to an error message and raises no fault.
C4_CodecFailureReturnsErrorPointer ==
    (last.op = "addr_canonicalize" /\ last.lib = "throws") =>
        /\ last.returned
        /\ last.ret # 0
        /\ last.ret = last.alloc

\* C5: a call in which allocate answered 0 ends in a communication fault
\* with guest memory as it was; a pointer returned for handed-back data is
\* the allocated one and not 0; and 0 comes back from db_read only for an
\* absent key, from the address functions only when no message was handed
\* back, and never from query_chain or secp256k1_recover_pubkey.
C5_ZeroAllocationFaults ==
    [][/\ last'.alloc = 0 =>
              /\ ~last'.returned
              /\ FaultClass(last'.fault.kind) = "communication"
              /\ memory' = memory
       /\ (last'.returned /\ last'.alloc # NoAlloc) =>
              last'.ret = last'.alloc /\ last'.ret # 0
       /\ (last'.returned /\ last'.ret = 0) =>
              /\ last'.op \notin {"query_chain", "secp256k1_recover_pubkey"}
              /\ last'.op = "db_read" =>
                     RegionBytes(memory, last'.args[1]) \notin DOMAIN storage
      ]_vars

\* db_read of a present key, with allocate answering 0
C5_Witness ==
    /\ last.op = "db_read"
    /\ last.alloc = 0
    /\ RegionBytes(memory, last.args[1]) \in DOMAIN storage

\* C6: debug returns normally for every message pointer.
C6_DebugNeverFails == last.op = "debug" => last.returned

\* C7 as claimed: abort raises the aborted fault for every message pointer.
C7_AbortAlwaysAborted ==
    last.op = "abort" => ~last.returned /\ last.fault.kind = "aborted"

\* C7: abort never returns normally; for a message region that can be read
\* the fault is the aborted fault with the decoded text of the region as
\* its message, and for any other the fault is the one of the failed read.
C7_AbortCarriesReadableMessage ==
    last.op = "abort" =>
        /\ ~last.returned
        /\ IF Readable(last.args[1], MAX_LENGTH_ABORT)
           THEN last.fault =
                    Fault("aborted", Utf8Decode(RegionBytes(memory, last.args[1])))
           ELSE last.fault.kind = "region"

\* abort with a message of some characters
C7_Witness ==
    /\ last.op = "abort"
    /\ last.fault.kind = "aborted"
    /\ Len(last.fault.message) > 1

\* C8: a failed recovery ends secp256k1_recover_pubkey with a recoverable
\* crypto error, nothing allocated.
C8_RecoverFailureIsCryptoError ==
    (last.op = "secp256k1_recover_pubkey" /\ last.lib = "throws") =>
        /\ FaultClass(last.fault.kind) = "recoverable"
        /\ last.alloc = NoAlloc

\* C9: the sequences ed25519_batch_verify decodes have at most 256 items,
\* messages of at most 128 KiB, signatures of at most 64 bytes and public
\* keys of at most 32 bytes.
C9_BatchCeilings ==
    (last.op = "ed25519_batch_verify" /\ last.decoded # <<>>) =>
        /\ \A j \in 1..3 : Len(last.decoded[j]) <= MAX_COUNT_ED25519_BATCH
        /\ \A i \in 1..Len(last.decoded[1]) :
               Len(last.decoded[1][i]) <= MAX_LENGTH_ED25519_MESSAGE
        /\ \A i \in 1..Len(last.decoded[2]) :
               Len(last.decoded[2][i]) <= MAX_LENGTH_ED25519_SIGNATURE
        /\ \A i \in 1..Len(last.decoded[3]) :
               Len(last.decoded[3][i]) <= EDDSA_PUBKEY_LEN

\* C10: a storage call that ends in a fault leaves the store as it was.
C10_FaultLeavesStore ==
    [][(last'.op \in {"db_read", "db_write", "db_remove"} /\ ~last'.returned) =>
           storage' = storage]_vars

\* db_write with a key that was read and a value region over the ceiling
C10_Witness ==
    /\ last.op = "db_write"
    /\ ~last.returned
    /\ Readable(last.args[1], MAX_LENGTH_DB_KEY)
    /\ ~Readable(last.args[2], MAX_LENGTH_DB_VALUE)

====
